---- MODULE Spec2Model ----
(***************************************************************************)
(* State-machine model of devtool-rs:                                      *)
(*   - src/src/parallel/mod.rs : DependencyGraph, ParallelScheduler         *)
(*   - src/src/ui/progress.rs  : ProgressState, ProgressBarManager          *)
(* Spec         : the scheduler (ParallelScheduler::execute_parallel).      *)
(* ProgressSpec : the progress state machine and its presentation manager.  *)
(* ManagersSpec : several managers sharing GLOBAL_CREATED_TOOLS.            *)
(* CapSpec      : the scheduler for any max_concurrent argument.            *)
(* LockSpec     : execute_parallel step by step, with the mutex guard.      *)
(* AnimationSpec: one ProgressAnimationManager as time passes.              *)
(* TimedSpec    : one manager driving its indicators as time passes.        *)
(***************************************************************************)
EXTENDS Integers, Sequences, FiniteSets, TLC

\* ------------------------------------------------------------------------
\* Bounds of the model
\* ------------------------------------------------------------------------

\* Longest `tools` vector handed to execute_parallel.
MaxTools == 3

\* Number of execute_parallel calls made on one ParallelScheduler.
MaxRuns == 2

\* Longest `tools` slice handed to create_progress_bars.
MaxRegister == 2

\* Number of ProgressBarManager method calls in one behaviour.
MaxCalls == 5

\* Number of method calls made on the managers that share GLOBAL_CREATED_TOOLS.
MaxSharedCalls == 4

\* Largest max_concurrent handed to ParallelScheduler::new.
MaxConcurrent == 2

\* Number of times the clock advances in one behaviour.
MaxTicks == 3

\* Milliseconds the clock advances by between two calls.
TickMs == 4000

\* ------------------------------------------------------------------------
\* parallel/mod.rs : data
\* ------------------------------------------------------------------------

\* enum Tool
Tool == {"Homebrew", "Rustup", "Mise"}

\* What a JoinHandle<Result<TaskResult>> can resolve to:
\*   "success" : Ok(Ok(TaskResult { success: true,  .. }))
\*   "failure" : Ok(Ok(TaskResult { success: false, .. }))
\*   "error"   : Ok(Err(anyhow error))     the task function rejected
\*   "panic"   : Err(JoinError)            the task panicked
Resolution == {"success", "failure", "error", "panic"}

\* A partial map HashMap<Tool, Vec<Tool>> is a function whose DOMAIN is the
\* set of keys present.
NoEntries == [t \in {} |-> <<>>]

\* DependencyGraph::default(): both maps empty.
DefaultGraph == [dependencies |-> NoEntries, reverse_dependencies |-> NoEntries]

\* The dependency graphs the scheduler is run with: the default graph and
\* acyclic graphs whose reverse index agrees with the dependency lists
\* (chain of two, chain of three, fan-in, fan-out with an explicit empty list).
Graphs ==
    { DefaultGraph,
      [dependencies         |-> ("Rustup" :> <<"Homebrew">>),
       reverse_dependencies |-> ("Homebrew" :> <<"Rustup">>)],
      [dependencies         |-> ("Rustup" :> <<"Homebrew">>) @@ ("Mise" :> <<"Rustup">>),
       reverse_dependencies |-> ("Homebrew" :> <<"Rustup">>) @@ ("Rustup" :> <<"Mise">>)],
      [dependencies         |-> ("Mise" :> <<"Homebrew", "Rustup">>),
       reverse_dependencies |-> ("Homebrew" :> <<"Mise">>) @@ ("Rustup" :> <<"Mise">>)],
      [dependencies         |-> ("Homebrew" :> <<>>) @@ ("Rustup" :> <<"Homebrew">>)
                                  @@ ("Mise" :> <<"Homebrew">>),
       reverse_dependencies |-> ("Homebrew" :> <<"Rustup", "Mise">>)] }

VARIABLES
    \* ParallelScheduler
    max_concurrent,     \* the argument new() was called with (not stored)
    dependency_graph,   \* self.dependency_graph
    completed_tools,    \* self.completed_tools (behind the mutex)
    \* locals of execute_parallel
    pc,                 \* "idle" | "loop" | "process" | "sleep" | "done" | "err"
    results,            \* Vec<TaskResult>
    pending_tools,      \* HashSet<Tool>
    running_tasks,      \* Vec<JoinHandle<..>>: [tool, status]
    completed_indices,  \* indices found finished by the scan of this pass
    \* history of the current call
    supplied,           \* the ids of the `tools` argument
    invoked,            \* update_fn calls: [tool, seen], seen = completed at the call
    awaited,            \* handles the scheduler awaited: [tool, status]
    runs,               \* execute_parallel calls made so far
    \* execute_parallel between its suspension points (LockSpec)
    completed_lock,     \* "free" | "held": the MutexGuard on completed_tools
    cur_result,         \* the TaskResult bound by `if let Ok(result)`
    dependent_tools,    \* what is left of `for dependent_tool in ..`
    ready_queue,        \* the ready_tools vector of this pass
    supplied_len,       \* tools.len() of the call
    \* ui/progress.rs
    term_interactive,   \* TERM != "dumb" && atty::is(Stdout), as the next call reads it
    created_tools,      \* GLOBAL_CREATED_TOOLS
    progress_bars,      \* per manager: HashMap<Tool, ProgressBar>
    states,             \* per manager: HashMap<Tool, ProgressState>
    animation_manager,  \* per manager: ProgressAnimationManager
    stderr,             \* the last warning line update_state printed
    clock,              \* Instant::now(), in milliseconds since the process started
    animated,           \* the last get_animation_progress call and what it returned
    \* history of the manager calls
    registered,         \* per manager: tools handed to create_progress_bars
    reached_terminal,   \* per manager: registered tools whose state has been terminal
    calls               \* manager method calls made so far

lockVars == <<completed_lock, cur_result, dependent_tools, ready_queue, supplied_len>>

schedVars == <<max_concurrent, dependency_graph, completed_tools, pc, results, pending_tools,
               running_tasks, completed_indices, supplied, invoked, awaited, runs, lockVars>>

timeVars == <<clock, animated>>

progressVars == <<term_interactive, created_tools, progress_bars, states,
                  animation_manager, stderr, registered, reached_terminal, calls,
                  timeVars>>

vars == <<schedVars, progressVars>>

\* ------------------------------------------------------------------------
\* Helpers
\* ------------------------------------------------------------------------

Range(s) == {s[i] : i \in 1..Len(s)}

RemoveHead(s, i) == SubSeq(s, 2, Len(s))

\* Vec::remove(i)
RemoveAt(s, i) == SubSeq(s, 1, i - 1) \o SubSeq(s, i + 1, Len(s))

\* Every order in which a HashSet's iterator can yield the elements of S.
Orders(S) == {s \in [1..Cardinality(S) -> S] : \A i, j \in 1..Cardinality(S) : i # j => s[i] # s[j]}

\* Vectors of tools of length 0..n (the `tools: Vec<Tool>` argument).
ToolVecs(n) == UNION {[1..k -> Tool] : k \in 0..n}

\* ------------------------------------------------------------------------
\* DependencyGraph
\* ------------------------------------------------------------------------

get_ready_tools_absent(graph, available_tools) ==
    Orders({tool \in available_tools : tool \notin DOMAIN graph.dependencies})

can_execute_declared(graph, tool, completed) ==
    /\ tool \in DOMAIN graph.dependencies
    /\ \A i \in 1..Len(graph.dependencies[tool]) : graph.dependencies[tool][i] \in completed

\* get_ready_tools: the tools of available_tools whose dependency list is
\* empty or absent; the result vector follows the HashSet's iteration order,
\* so this is the set of vectors the call can return.
get_ready_tools(graph, available_tools) ==
    Orders({tool \in available_tools :
               IF tool \in DOMAIN graph.dependencies
               THEN graph.dependencies[tool] = <<>>
               ELSE TRUE})

\* get_dependent_tools
get_dependent_tools(graph, tool) ==
    IF tool \in DOMAIN graph.reverse_dependencies
    THEN graph.reverse_dependencies[tool]
    ELSE <<>>

can_execute_any(graph, tool, completed) ==
    IF tool \in DOMAIN graph.dependencies
    THEN graph.dependencies[tool] = <<>>
         \/ \E i \in 1..Len(graph.dependencies[tool]) : graph.dependencies[tool][i] \in completed
    ELSE TRUE

\* can_execute
can_execute(graph, tool, completed) ==
    IF tool \in DOMAIN graph.dependencies
    THEN \A i \in 1..Len(graph.dependencies[tool]) : graph.dependencies[tool][i] \in completed
    ELSE TRUE

\* ------------------------------------------------------------------------
\* ParallelScheduler::execute_parallel
\* ------------------------------------------------------------------------

LaunchKeepPending(st, tool, completed) ==
    [pending |-> st.pending,
     running |-> Append(st.running, [tool |-> tool, status |-> "running"]),
     invoked |-> Append(st.invoked, [tool |-> tool, seen |-> completed])]

\* pending_tools.remove(&tool); let task = update_fn(tool); running_tasks.push(task)
\* st = [pending, running, invoked]
Launch(st, tool, completed) ==
    [pending |-> st.pending \ {tool},
     running |-> Append(st.running, [tool |-> tool, status |-> "running"]),
     invoked |-> Append(st.invoked, [tool |-> tool, seen |-> completed])]

\* for dependent_tool in get_dependent_tools(&tool) { if pending.contains(..) { if can_execute {..} } }
RECURSIVE LaunchDependents(_, _, _, _)
LaunchDependents(graph, dependents, st, completed) ==
    IF dependents = <<>> THEN st
    ELSE LET d == Head(dependents)
             next == IF d \in st.pending /\ can_execute(graph, d, completed)
                     THEN Launch(st, d, completed)
                     ELSE st
         IN LaunchDependents(graph, Tail(dependents), next, completed)

RECURSIVE LaunchReadyCapped(_, _, _)
LaunchReadyCapped(ready_tools, st, completed) ==
    IF ready_tools = <<>> THEN st
    ELSE LET t == Head(ready_tools)
             next == IF t \in st.pending /\ Len(st.running) < max_concurrent
                     THEN Launch(st, t, completed)
                     ELSE st
         IN LaunchReadyCapped(Tail(ready_tools), next, completed)

\* for tool in ready_tools { if pending_tools.contains(&tool) { .. } }
RECURSIVE LaunchReady(_, _, _)
LaunchReady(ready_tools, st, completed) ==
    IF ready_tools = <<>> THEN st
    ELSE LET t == Head(ready_tools)
             next == IF t \in st.pending THEN Launch(st, t, completed) ELSE st
         IN LaunchReady(Tail(ready_tools), next, completed)

InsertIfSuccess(completed, result) ==
    IF result.success THEN completed \cup {result.tool} ELSE completed

KeepGuard(lock) == lock

\* The MutexGuard goes out of scope at the end of its block: the lock is free.
DropGuard(lock) == "free"

\* completed.insert(tool.clone())
MarkCompleted(completed, result) == completed \cup {result.tool}

\* No TaskResult is bound.
NoResult == [tool |-> "-", success |-> FALSE]

\* The TaskResult a handle that resolved to Ok(Ok(..)) carries.
TaskResultOf(task) == [tool |-> task.tool, success |-> (task.status = "success")]

\* ------------------------------------------------------------------------
\* ui/progress.rs : ProgressState
\* ------------------------------------------------------------------------

\* enum ProgressState
ProgressState == {"Preparing", "Executing", "ExecutingMid", "ExecutingLate",
                  "Completed", "Failed"}

progress_percentage_failed_zero(self) ==
    CASE self = "Preparing"     -> 0
      [] self = "Executing"     -> 25
      [] self = "ExecutingMid"  -> 50
      [] self = "ExecutingLate" -> 75
      [] self = "Completed"     -> 100
      [] self = "Failed"        -> 0

\* ProgressState::progress_percentage
progress_percentage(self) ==
    CASE self = "Preparing"     -> 0
      [] self = "Executing"     -> 25
      [] self = "ExecutingMid"  -> 50
      [] self = "ExecutingLate" -> 75
      [] self = "Completed"     -> 100
      [] self = "Failed"        -> 100

\* ProgressState::display_message: the text around the tool's name.
display_message(self) ==
    CASE self = "Preparing"     -> "preparing"
      [] self = "Executing"     -> "executing"
      [] self = "ExecutingMid"  -> "executing"
      [] self = "ExecutingLate" -> "executing"
      [] self = "Completed"     -> "complete"
      [] self = "Failed"        -> "failed"

is_valid_transition_forward(self, new_state) ==
    progress_percentage(new_state) > progress_percentage(self)

is_valid_transition_reopen(self, new_state) ==
    IF self = "Preparing" /\ new_state = "Executing" THEN TRUE
    ELSE IF self = "Executing" /\ new_state = "ExecutingMid" THEN TRUE
    ELSE IF self = "ExecutingMid" /\ new_state = "ExecutingLate" THEN TRUE
    ELSE IF self = "Executing" /\ new_state = "Completed" THEN TRUE
    ELSE IF self = "Executing" /\ new_state = "Failed" THEN TRUE
    ELSE IF self = "ExecutingMid" /\ new_state = "Completed" THEN TRUE
    ELSE IF self = "ExecutingMid" /\ new_state = "Failed" THEN TRUE
    ELSE IF self = "ExecutingLate" /\ new_state = "Completed" THEN TRUE
    ELSE IF self = "ExecutingLate" /\ new_state = "Failed" THEN TRUE
    ELSE IF self = "Failed" /\ new_state = "Preparing" THEN TRUE
    ELSE FALSE

\* ProgressState::is_valid_transition: the match arms in their order.
is_valid_transition(self, new_state) ==
    IF self = "Preparing" /\ new_state = "Executing" THEN TRUE
    ELSE IF self = "Executing" /\ new_state = "ExecutingMid" THEN TRUE
    ELSE IF self = "ExecutingMid" /\ new_state = "ExecutingLate" THEN TRUE
    ELSE IF self = "Executing" /\ new_state = "Completed" THEN TRUE
    ELSE IF self = "Executing" /\ new_state = "Failed" THEN TRUE
    ELSE IF self = "ExecutingMid" /\ new_state = "Completed" THEN TRUE
    ELSE IF self = "ExecutingMid" /\ new_state = "Failed" THEN TRUE
    ELSE IF self = "ExecutingLate" /\ new_state = "Completed" THEN TRUE
    ELSE IF self = "ExecutingLate" /\ new_state = "Failed" THEN TRUE
    ELSE IF self = "Completed" THEN FALSE
    ELSE IF self = "Failed" THEN FALSE
    ELSE FALSE

\* ------------------------------------------------------------------------
\* ui/progress.rs : ProgressBarManager
\* ------------------------------------------------------------------------

\* The ProgressBarManager instances of the process (each from new()).
Managers == {"m1", "m2"}

\* HashMap::get(tool) == None
NoState == "NoState"
NoBar == [present |-> FALSE, position |-> 0, message |-> "", finished |-> FALSE]

\* matches!(new_state, Executing | ExecutingMid | ExecutingLate)
IsExecuting(new_state) == new_state \in {"Executing", "ExecutingMid", "ExecutingLate"}

\* ProgressAnimationManager::start_animation at Instant now
start_animation(anim, now) == [anim EXCEPT !.start_time = now, !.is_animating = TRUE]

\* ProgressAnimationManager::stop_animation
stop_animation(anim) == [anim EXCEPT !.is_animating = FALSE]

\* No get_animation_progress call has been made.
NoAnimated == [state |-> NoState, animating |-> FALSE, elapsed |-> 0, value |-> 0]

get_animation_progress_uncapped(anim, elapsed, current_state) ==
    IF ~anim.is_animating THEN progress_percentage(current_state)
    ELSE CASE current_state = "Executing"     -> 25 + (25 * elapsed) \div 10000
           [] current_state = "ExecutingMid"  -> 50 + (25 * elapsed) \div 10000
           [] current_state = "ExecutingLate" -> 75 + (25 * elapsed) \div 10000
           [] OTHER -> progress_percentage(current_state)

\* ProgressAnimationManager::get_animation_progress, elapsed =
\* start_time.elapsed() in milliseconds; total_duration is 10 s. The f64
\* expression (base + 25.0 * (elapsed / 10000.0).min(1.0)) as u64 equals this
\* integer form for every elapsed of 0..20000 ms.
get_animation_progress(anim, elapsed, current_state) ==
    IF ~anim.is_animating THEN progress_percentage(current_state)
    ELSE LET capped == IF elapsed < 10000 THEN elapsed ELSE 10000
         IN CASE current_state = "Executing"     -> 25 + (25 * capped) \div 10000
              [] current_state = "ExecutingMid"  -> 50 + (25 * capped) \div 10000
              [] current_state = "ExecutingLate" -> 75 + (25 * capped) \div 10000
              [] OTHER -> progress_percentage(current_state)

\* multi_progress.add(ProgressBar::new(100)); set_message("<tool> 准备中...")
NewBar == [present |-> TRUE, position |-> 0, message |-> "preparing", finished |-> FALSE]

\* The caller registers and updates these tools.
ProgressTools == {"Homebrew", "Rustup"}

\* Slices of 1..n of them (the `tools: &[Tool]` argument).
ToolSlices(n) == UNION {[1..k -> ProgressTools] : k \in 1..n}

\* eprintln!("警告: 无效的状态转换 {:?} -> {:?} for {}", ..)
Warning(current_state, new_state, tool) ==
    [from |-> current_state, to |-> new_state, tool |-> tool]

NoWarning == [from |-> NoState, to |-> NoState, tool |-> "-"]

\* ProgressBarManager::new() for every manager; the scheduler is not in a call.
ProgressInit ==
    /\ term_interactive \in BOOLEAN
    /\ created_tools = {}
    /\ progress_bars = [m \in Managers |-> [t \in Tool |-> NoBar]]
    /\ states = [m \in Managers |-> [t \in Tool |-> NoState]]
    /\ animation_manager = [m \in Managers |-> [is_animating |-> FALSE, start_time |-> 0]]
    /\ clock = 0
    /\ animated = NoAnimated
    /\ stderr = NoWarning
    /\ registered = [m \in Managers |-> {}]
    /\ reached_terminal = [m \in Managers |-> {}]
    /\ calls = 0
    /\ max_concurrent = MaxConcurrent
    /\ dependency_graph = DefaultGraph
    /\ completed_tools = {}
    /\ pc = "idle"
    /\ results = <<>>
    /\ pending_tools = {}
    /\ running_tasks = <<>>
    /\ completed_indices = <<>>
    /\ supplied = {}
    /\ invoked = <<>>
    /\ awaited = <<>>
    /\ runs = 0
    /\ completed_lock = "free"
    /\ cur_result = NoResult
    /\ dependent_tools = <<>>
    /\ ready_queue = <<>>
    /\ supplied_len = 0

\* One iteration of the interactive `for tool in tools` of create_progress_bars.
\* acc = [bars, states, created]
CreateOne(acc, tool) ==
    IF acc.bars[tool] # NoBar THEN acc
    ELSE IF tool \in acc.created THEN acc
    ELSE [bars    |-> [acc.bars EXCEPT ![tool] = NewBar],
          states  |-> [acc.states EXCEPT ![tool] = "Preparing"],
          created |-> acc.created \cup {tool}]

RECURSIVE CreateAll(_, _)
CreateAll(acc, tools) ==
    IF tools = <<>> THEN acc ELSE CreateAll(CreateOne(acc, Head(tools)), Tail(tools))

\* The non-interactive `for tool in tools`: states.insert(tool, Preparing).
RECURSIVE RecordAll(_, _)
RecordAll(st, tools) ==
    IF tools = <<>> THEN st
    ELSE RecordAll([st EXCEPT ![Head(tools)] = "Preparing"], Tail(tools))

\* ProgressBarManager::create_progress_bars
CreateProgressBars(m, tools) ==
    /\ calls < MaxCalls
    /\ calls' = calls + 1
    /\ IF ~term_interactive
       THEN /\ states' = [states EXCEPT ![m] = RecordAll(states[m], tools)]
            /\ UNCHANGED <<progress_bars, created_tools>>
       ELSE LET acc == CreateAll([bars |-> progress_bars[m], states |-> states[m],
                                  created |-> created_tools], tools)
            IN /\ progress_bars' = [progress_bars EXCEPT ![m] = acc.bars]
               /\ states' = [states EXCEPT ![m] = acc.states]
               /\ created_tools' = acc.created
    /\ registered' = [registered EXCEPT ![m] = @ \cup Range(tools)]
    /\ UNCHANGED <<term_interactive, animation_manager, stderr, reached_terminal>>
    /\ UNCHANGED timeVars
    /\ UNCHANGED schedVars

\* ProgressBarManager::update_state
UpdateState(m, tool, new_state) ==
    /\ calls < MaxCalls
    /\ calls' = calls + 1
    /\ IF states[m][tool] # NoState /\ ~is_valid_transition(states[m][tool], new_state)
       THEN \* the warning is printed and the call returns
            /\ stderr' = Warning(states[m][tool], new_state, tool)
            /\ UNCHANGED <<states, progress_bars, animation_manager>>
       ELSE IF ~term_interactive
       THEN /\ states' = [states EXCEPT ![m][tool] = new_state]
            /\ UNCHANGED <<progress_bars, animation_manager, stderr>>
       ELSE IF progress_bars[m][tool] # NoBar
       THEN LET anim == IF IsExecuting(new_state)
                        THEN start_animation(animation_manager[m], clock)
                        ELSE animation_manager[m]
                \* start_animation has just set start_time: no time has elapsed
                progress == IF IsExecuting(new_state)
                            THEN get_animation_progress(anim, clock - anim.start_time,
                                                        new_state)
                            ELSE progress_percentage(new_state)
            IN /\ animation_manager' = [animation_manager EXCEPT ![m] = anim]
               /\ progress_bars' = [progress_bars EXCEPT
                                       ![m][tool].position = progress,
                                       ![m][tool].message = display_message(new_state)]
               /\ states' = [states EXCEPT ![m][tool] = new_state]
               /\ UNCHANGED stderr
       ELSE /\ states' = [states EXCEPT ![m][tool] = new_state]
            /\ UNCHANGED <<progress_bars, animation_manager, stderr>>
    /\ reached_terminal' =
           IF tool \in registered[m] /\ states'[m][tool] \in {"Completed", "Failed"}
           THEN [reached_terminal EXCEPT ![m] = @ \cup {tool}]
           ELSE reached_terminal
    /\ UNCHANGED <<term_interactive, created_tools, registered>>
    /\ UNCHANGED timeVars
    /\ UNCHANGED schedVars

FinalMessageOfState(st) == display_message(st)

\* The message finalize_all gives the bar of a tool in tracked state st.
FinalMessage(st) ==
    IF st = "Completed" THEN "complete"
    ELSE IF st = "Failed" THEN "failed"
    ELSE "interrupted"

\* ProgressBarManager::finalize_all
FinalizeAll(m) ==
    /\ calls < MaxCalls
    /\ calls' = calls + 1
    /\ animation_manager' = [animation_manager EXCEPT ![m] = stop_animation(@)]
    /\ progress_bars' = [progress_bars EXCEPT ![m] =
           [t \in Tool |-> IF progress_bars[m][t] = NoBar THEN NoBar
                           ELSE [progress_bars[m][t] EXCEPT
                                    !.message = FinalMessage(states[m][t]),
                                    !.finished = TRUE]]]
    /\ UNCHANGED <<term_interactive, created_tools, states, stderr, registered,
                   reached_terminal>>
    /\ UNCHANGED timeVars
    /\ UNCHANGED schedVars

\* ProgressBarManager::cleanup_instances: instance_count.store(0) and
\* created_tools.clear() on the set every manager shares; the manager's own
\* progress_bars and states are left as they are.
CleanupInstances(m) ==
    /\ calls < MaxCalls
    /\ calls' = calls + 1
    /\ created_tools' = {}
    /\ UNCHANGED <<term_interactive, progress_bars, states, animation_manager,
                   stderr, registered, reached_terminal>>
    /\ UNCHANGED timeVars
    /\ UNCHANGED schedVars

\* The terminal capability changes between two calls (TERM is set, stdout is
\* redirected): the next call reads the new answer.
TerminalChange ==
    /\ term_interactive' = ~term_interactive
    /\ UNCHANGED <<created_tools, progress_bars, states, animation_manager,
                   stderr, registered, reached_terminal, calls>>
    /\ UNCHANGED timeVars
    /\ UNCHANGED schedVars

\* Time passes between two calls.
Tick ==
    /\ clock < MaxTicks * TickMs
    /\ clock' = clock + TickMs
    /\ UNCHANGED <<term_interactive, created_tools, progress_bars, states,
                   animation_manager, stderr, registered, reached_terminal, calls,
                   animated>>
    /\ UNCHANGED schedVars

\* A caller starts the animation of a ProgressAnimationManager.
StartAnimation(m) ==
    /\ animation_manager' = [animation_manager EXCEPT ![m] = start_animation(@, clock)]
    /\ UNCHANGED <<term_interactive, created_tools, progress_bars, states, stderr,
                   registered, reached_terminal, calls, timeVars>>
    /\ UNCHANGED schedVars

\* A caller stops it.
StopAnimation(m) ==
    /\ animation_manager' = [animation_manager EXCEPT ![m] = stop_animation(@)]
    /\ UNCHANGED <<term_interactive, created_tools, progress_bars, states, stderr,
                   registered, reached_terminal, calls, timeVars>>
    /\ UNCHANGED schedVars

\* A caller asks for the animated percentage of a state.
GetAnimationProgress(m, current_state) ==
    /\ animated' = [state     |-> current_state,
                    animating |-> animation_manager[m].is_animating,
                    elapsed   |-> clock - animation_manager[m].start_time,
                    value     |-> get_animation_progress(animation_manager[m],
                                      clock - animation_manager[m].start_time,
                                      current_state)]
    /\ UNCHANGED <<term_interactive, created_tools, progress_bars, states,
                   animation_manager, stderr, registered, reached_terminal, calls,
                   clock>>
    /\ UNCHANGED schedVars

\* One ProgressAnimationManager is started, stopped and queried as time passes.
AnimationNext ==
    \/ StartAnimation("m1")
    \/ StopAnimation("m1")
    \/ \E current_state \in ProgressState : GetAnimationProgress("m1", current_state)
    \/ Tick

\* One manager drives its indicators as time passes.
TimedNext ==
    \/ \E tools \in ToolSlices(MaxRegister) :
          calls < MaxSharedCalls /\ CreateProgressBars("m1", tools)
    \/ \E tool \in ProgressTools, new_state \in ProgressState :
          calls < MaxSharedCalls /\ UpdateState("m1", tool, new_state)
    \/ calls < MaxSharedCalls /\ FinalizeAll("m1")
    \/ Tick

\* One manager drives its indicators.
ProgressNext ==
    \/ \E tools \in ToolSlices(MaxRegister) : CreateProgressBars("m1", tools)
    \/ \E tool \in ProgressTools, new_state \in ProgressState : UpdateState("m1", tool, new_state)
    \/ FinalizeAll("m1")
    \/ TerminalChange

\* Several managers of one process drive indicators for the same tools; they
\* share GLOBAL_CREATED_TOOLS.
ManagersNext ==
    \/ \E m \in Managers, tools \in ToolSlices(MaxRegister) :
          calls < MaxSharedCalls /\ CreateProgressBars(m, tools)
    \/ \E m \in Managers, tool \in ProgressTools, new_state \in ProgressState :
          calls < MaxSharedCalls /\ UpdateState(m, tool, new_state)
    \/ \E m \in Managers : calls < MaxSharedCalls /\ FinalizeAll(m)
    \/ \E m \in Managers : calls < MaxSharedCalls /\ CleanupInstances(m)
    \/ TerminalChange

\* ParallelScheduler::new() with a dependency graph; no manager is in use.
Init ==
    /\ max_concurrent = MaxConcurrent
    /\ dependency_graph \in Graphs
    /\ completed_tools = {}
    /\ pc = "idle"
    /\ results = <<>>
    /\ pending_tools = {}
    /\ running_tasks = <<>>
    /\ completed_indices = <<>>
    /\ supplied = {}
    /\ invoked = <<>>
    /\ awaited = <<>>
    /\ runs = 0
    /\ completed_lock = "free"
    /\ cur_result = NoResult
    /\ dependent_tools = <<>>
    /\ ready_queue = <<>>
    /\ supplied_len = 0
    /\ term_interactive = TRUE
    /\ created_tools = {}
    /\ progress_bars = [m \in Managers |-> [t \in Tool |-> NoBar]]
    /\ states = [m \in Managers |-> [t \in Tool |-> NoState]]
    /\ animation_manager = [m \in Managers |-> [is_animating |-> FALSE, start_time |-> 0]]
    /\ clock = 0
    /\ animated = NoAnimated
    /\ stderr = NoWarning
    /\ registered = [m \in Managers |-> {}]
    /\ reached_terminal = [m \in Managers |-> {}]
    /\ calls = 0

\* ParallelScheduler::new(max_concurrent) for any max_concurrent: the argument
\* is dropped and the graph is DependencyGraph::default().
CapInit ==
    /\ max_concurrent \in 1..MaxConcurrent
    /\ dependency_graph = DefaultGraph
    /\ completed_tools = {}
    /\ pc = "idle"
    /\ results = <<>>
    /\ pending_tools = {}
    /\ running_tasks = <<>>
    /\ completed_indices = <<>>
    /\ supplied = {}
    /\ invoked = <<>>
    /\ awaited = <<>>
    /\ runs = 0
    /\ completed_lock = "free"
    /\ cur_result = NoResult
    /\ dependent_tools = <<>>
    /\ ready_queue = <<>>
    /\ supplied_len = 0
    /\ term_interactive = TRUE
    /\ created_tools = {}
    /\ progress_bars = [m \in Managers |-> [t \in Tool |-> NoBar]]
    /\ states = [m \in Managers |-> [t \in Tool |-> NoState]]
    /\ animation_manager = [m \in Managers |-> [is_animating |-> FALSE, start_time |-> 0]]
    /\ clock = 0
    /\ animated = NoAnimated
    /\ stderr = NoWarning
    /\ registered = [m \in Managers |-> {}]
    /\ reached_terminal = [m \in Managers |-> {}]
    /\ calls = 0

\* execute_parallel(tools, update_fn) is called: the locals are created.
Call(tools) ==
    /\ pc \in {"idle", "done", "err"}
    /\ runs < MaxRuns
    /\ runs' = runs + 1
    /\ results' = <<>>
    /\ pending_tools' = Range(tools)
    /\ running_tasks' = <<>>
    /\ completed_indices' = <<>>
    /\ supplied' = Range(tools)
    /\ invoked' = <<>>
    /\ awaited' = <<>>
    /\ pc' = "loop"
    /\ UNCHANGED <<dependency_graph, completed_tools>>
    /\ UNCHANGED <<max_concurrent, lockVars>>
    /\ UNCHANGED progressVars

\* A spawned task finishes on the runtime, at any moment of the call.
TaskFinish(i, r) ==
    /\ pc \notin {"idle", "done", "err"}
    /\ i \in 1..Len(running_tasks)
    /\ running_tasks[i].status = "running"
    /\ running_tasks' = [running_tasks EXCEPT ![i].status = r]
    /\ UNCHANGED <<dependency_graph, completed_tools, pc, results, pending_tools,
                   completed_indices, supplied, invoked, awaited, runs>>
    /\ UNCHANGED <<max_concurrent, lockVars>>
    /\ UNCHANGED progressVars

\* The while condition and the scan for finished tasks.
LoopCheck ==
    /\ pc = "loop"
    /\ IF pending_tools = {} /\ running_tasks = <<>>
       THEN /\ pc' = "done"
            /\ UNCHANGED completed_indices
       ELSE /\ pc' = "process"
            /\ completed_indices' =
                   SelectSeq([i \in 1..Len(running_tasks) |-> i],
                             LAMBDA i : running_tasks[i].status # "running")
    /\ UNCHANGED <<dependency_graph, completed_tools, results, pending_tools,
                   running_tasks, supplied, invoked, awaited, runs>>
    /\ UNCHANGED <<max_concurrent, lockVars>>
    /\ UNCHANGED progressVars

\* One iteration of `for &i in completed_indices.iter().rev()`.
ProcessCompleted ==
    /\ pc = "process"
    /\ completed_indices # <<>>
    /\ LET i    == completed_indices[Len(completed_indices)]
           task == running_tasks[i]
           rest == RemoveAt(running_tasks, i)
       IN /\ completed_indices' = SubSeq(completed_indices, 1, Len(completed_indices) - 1)
          /\ awaited' = Append(awaited, task)
          /\ IF task.status = "panic"
             THEN \* task.await? : the JoinError leaves execute_parallel
                  /\ pc' = "err"
                  /\ running_tasks' = rest
                  /\ UNCHANGED <<completed_tools, results, pending_tools, invoked>>
             ELSE IF task.status = "error"
             THEN \* `if let Ok(result)` does not match: nothing is recorded
                  /\ pc' = pc
                  /\ running_tasks' = rest
                  /\ UNCHANGED <<completed_tools, results, pending_tools, invoked>>
             ELSE LET result    == TaskResultOf(task)
                      completed == MarkCompleted(completed_tools, result)
                      st == LaunchDependents(dependency_graph,
                                              get_dependent_tools(dependency_graph, result.tool),
                                              [pending |-> pending_tools, running |-> rest,
                                               invoked |-> invoked],
                                              completed)
                  IN /\ pc' = pc
                     /\ results' = Append(results, result)
                     /\ completed_tools' = completed
                     /\ pending_tools' = st.pending
                     /\ running_tasks' = st.running
                     /\ invoked' = st.invoked
    /\ UNCHANGED <<dependency_graph, supplied, runs>>
    /\ UNCHANGED <<max_concurrent, lockVars>>
    /\ UNCHANGED progressVars

\* The ready scan after the finished tasks were processed.
StartReady ==
    /\ pc = "process"
    /\ completed_indices = <<>>
    /\ \E ready_tools \in get_ready_tools(dependency_graph, pending_tools) :
          LET st == LaunchReady(ready_tools,
                                [pending |-> pending_tools, running |-> running_tasks,
                                 invoked |-> invoked],
                                completed_tools)
          IN /\ pending_tools' = st.pending
             /\ running_tasks' = st.running
             /\ invoked' = st.invoked
    /\ pc' = "sleep"
    /\ UNCHANGED <<dependency_graph, completed_tools, results, completed_indices,
                   supplied, awaited, runs>>
    /\ UNCHANGED <<max_concurrent, lockVars>>
    /\ UNCHANGED progressVars

\* tokio::time::sleep(10ms) is over: back to the while condition.
Sleep ==
    /\ pc = "sleep"
    /\ pc' = "loop"
    /\ UNCHANGED <<dependency_graph, completed_tools, results, pending_tools,
                   running_tasks, completed_indices, supplied, invoked, awaited, runs>>
    /\ UNCHANGED <<max_concurrent, lockVars>>
    /\ UNCHANGED progressVars

Next ==
    \/ \E tools \in ToolVecs(MaxTools) : Call(tools)
    \/ \E i \in 1..Cardinality(Tool), r \in Resolution : TaskFinish(i, r)
    \/ LoopCheck
    \/ ProcessCompleted
    \/ StartReady
    \/ Sleep

Spec == Init /\ [][Next]_vars

ProgressSpec == ProgressInit /\ [][ProgressNext]_vars

ManagersSpec == ProgressInit /\ [][ManagersNext]_vars

AnimationSpec == ProgressInit /\ [][AnimationNext]_vars

TimedSpec == ProgressInit /\ [][TimedNext]_vars

\* One execute_parallel call on a scheduler just constructed.
CapNext ==
    \/ \E tools \in ToolVecs(MaxTools) : runs = 0 /\ Call(tools)
    \/ \E i \in 1..Cardinality(Tool), r \in Resolution : TaskFinish(i, r)
    \/ LoopCheck
    \/ ProcessCompleted
    \/ StartReady
    \/ Sleep

CapSpec == CapInit /\ [][CapNext]_vars

\* ------------------------------------------------------------------------
\* execute_parallel step by step: one action per stretch of code between two
\* suspension points (.await), lock acquisitions and update_fn calls.
\*   pc: "loop"                the while condition
\*       "for_completed"       head of `for &i in completed_indices.iter().rev()`
\*                             (the next step removes a handle and awaits it)
\*       "acquire_insert"      self.completed_tools.lock().await, line 149
\*       "locked_insert"       inside the block of lines 148-151
\*       "for_dependent"       head of `for dependent_tool in ..`
\*       "acquire_can_execute" self.completed_tools.lock().await, line 158
\*       "locked_can_execute"  inside the block of lines 157-161
\*       "call_update_fn"      lines 163-166
\*       "acquire_ready"       self.completed_tools.lock().await, line 174
\*       "locked_ready"        inside the block of lines 173-176
\*       "for_ready"           `for tool in ready_tools`, lines 178-184
\*       "sleep"               tokio::time::sleep(..).await, line 187
\* ------------------------------------------------------------------------

\* execute_parallel(tools, update_fn) is called on a scheduler just constructed.
LockCall(tools) ==
    /\ pc = "idle"
    /\ runs = 0
    /\ runs' = runs + 1
    /\ results' = <<>>
    /\ pending_tools' = Range(tools)
    /\ running_tasks' = <<>>
    /\ completed_indices' = <<>>
    /\ supplied' = Range(tools)
    /\ supplied_len' = Len(tools)
    /\ invoked' = <<>>
    /\ awaited' = <<>>
    /\ pc' = "loop"
    /\ UNCHANGED <<max_concurrent, dependency_graph, completed_tools, completed_lock,
                   cur_result, dependent_tools, ready_queue>>
    /\ UNCHANGED progressVars

\* The while condition and the is_finished scan (lines 131-138).
LockLoopCheck ==
    /\ pc = "loop"
    /\ IF pending_tools = {} /\ running_tasks = <<>>
       THEN /\ pc' = "done"
            /\ UNCHANGED completed_indices
       ELSE /\ pc' = "for_completed"
            /\ completed_indices' =
                   SelectSeq([i \in 1..Len(running_tasks) |-> i],
                             LAMBDA i : running_tasks[i].status # "running")
    /\ UNCHANGED <<max_concurrent, dependency_graph, completed_tools, results, pending_tools,
                   running_tasks, supplied, invoked, awaited, runs, lockVars>>
    /\ UNCHANGED progressVars

\* running_tasks.remove(i); task.await? ; results.push(result)  (lines 141-146)
LockAwaitTask ==
    /\ pc = "for_completed"
    /\ IF completed_indices = <<>>
       THEN /\ pc' = "acquire_ready"
            /\ UNCHANGED <<completed_indices, awaited, running_tasks, results, cur_result>>
       ELSE LET i    == completed_indices[Len(completed_indices)]
                task == running_tasks[i]
            IN /\ completed_indices' = SubSeq(completed_indices, 1, Len(completed_indices) - 1)
               /\ awaited' = Append(awaited, task)
               /\ running_tasks' = RemoveAt(running_tasks, i)
               /\ IF task.status = "panic"
                  THEN pc' = "err" /\ UNCHANGED <<results, cur_result>>
                  ELSE IF task.status = "error"
                  THEN pc' = "for_completed" /\ UNCHANGED <<results, cur_result>>
                  ELSE /\ results' = Append(results, TaskResultOf(task))
                       /\ cur_result' = TaskResultOf(task)
                       /\ pc' = "acquire_insert"
    /\ UNCHANGED <<max_concurrent, dependency_graph, completed_tools, pending_tools, supplied,
                   invoked, runs, completed_lock, dependent_tools, ready_queue, supplied_len>>
    /\ UNCHANGED progressVars

\* self.completed_tools.lock().await returns the guard (lines 149, 158, 174).
LockAcquire ==
    /\ pc \in {"acquire_insert", "acquire_can_execute", "acquire_ready"}
    /\ completed_lock = "free"
    /\ completed_lock' = "held"
    /\ pc' = CASE pc = "acquire_insert"      -> "locked_insert"
              [] pc = "acquire_can_execute" -> "locked_can_execute"
              [] pc = "acquire_ready"       -> "locked_ready"
    /\ UNCHANGED <<max_concurrent, dependency_graph, completed_tools, results, pending_tools,
                   running_tasks, completed_indices, supplied, invoked, awaited, runs,
                   cur_result, dependent_tools, ready_queue, supplied_len>>
    /\ UNCHANGED progressVars

\* completed.insert(tool.clone()); the block ends (lines 150-151); the
\* dependents of the tool are fetched (line 154).
LockInsert ==
    /\ pc = "locked_insert"
    /\ completed_tools' = MarkCompleted(completed_tools, cur_result)
    /\ completed_lock' = DropGuard(completed_lock)
    /\ dependent_tools' = get_dependent_tools(dependency_graph, cur_result.tool)
    /\ pc' = "for_dependent"
    /\ UNCHANGED <<max_concurrent, dependency_graph, results, pending_tools, running_tasks,
                   completed_indices, supplied, invoked, awaited, runs, cur_result,
                   ready_queue, supplied_len>>
    /\ UNCHANGED progressVars

\* for dependent_tool in ..  { if pending_tools.contains(&dependent_tool) {  (lines 154-155)
LockForDependent ==
    /\ pc = "for_dependent"
    /\ IF dependent_tools = <<>>
       THEN pc' = "for_completed" /\ UNCHANGED dependent_tools
       ELSE IF Head(dependent_tools) \in pending_tools
       THEN pc' = "acquire_can_execute" /\ UNCHANGED dependent_tools
       ELSE pc' = "for_dependent" /\ dependent_tools' = Tail(dependent_tools)
    /\ UNCHANGED <<max_concurrent, dependency_graph, completed_tools, results, pending_tools,
                   running_tasks, completed_indices, supplied, invoked, awaited, runs,
                   completed_lock, cur_result, ready_queue, supplied_len>>
    /\ UNCHANGED progressVars

\* can_execute(&dependent_tool, &completed); the block ends (lines 159-161).
LockCanExecute ==
    /\ pc = "locked_can_execute"
    /\ completed_lock' = DropGuard(completed_lock)
    /\ IF can_execute(dependency_graph, Head(dependent_tools), completed_tools)
       THEN pc' = "call_update_fn" /\ UNCHANGED dependent_tools
       ELSE pc' = "for_dependent" /\ dependent_tools' = Tail(dependent_tools)
    /\ UNCHANGED <<max_concurrent, dependency_graph, completed_tools, results, pending_tools,
                   running_tasks, completed_indices, supplied, invoked, awaited, runs,
                   cur_result, ready_queue, supplied_len>>
    /\ UNCHANGED progressVars

\* pending_tools.remove; update_fn(dependent_tool); running_tasks.push (lines 163-166)
LockLaunchDependent ==
    /\ pc = "call_update_fn"
    /\ LET st == Launch([pending |-> pending_tools, running |-> running_tasks,
                         invoked |-> invoked],
                        Head(dependent_tools), completed_tools)
       IN /\ pending_tools' = st.pending
          /\ running_tasks' = st.running
          /\ invoked' = st.invoked
    /\ dependent_tools' = Tail(dependent_tools)
    /\ pc' = "for_dependent"
    /\ UNCHANGED <<max_concurrent, dependency_graph, completed_tools, results,
                   completed_indices, supplied, awaited, runs, completed_lock, cur_result,
                   ready_queue, supplied_len>>
    /\ UNCHANGED progressVars

\* get_ready_tools(&pending_tools) under the guard; the block ends (lines 173-176).
LockReadyScan ==
    /\ pc = "locked_ready"
    /\ ready_queue' \in get_ready_tools(dependency_graph, pending_tools)
    /\ completed_lock' = DropGuard(completed_lock)
    /\ pc' = "for_ready"
    /\ UNCHANGED <<max_concurrent, dependency_graph, completed_tools, results, pending_tools,
                   running_tasks, completed_indices, supplied, invoked, awaited, runs,
                   cur_result, dependent_tools, supplied_len>>
    /\ UNCHANGED progressVars

\* for tool in ready_tools { .. update_fn(tool) .. }  (lines 178-184)
LockLaunchReady ==
    /\ pc = "for_ready"
    /\ LET st == LaunchReady(ready_queue,
                             [pending |-> pending_tools, running |-> running_tasks,
                              invoked |-> invoked],
                             completed_tools)
       IN /\ pending_tools' = st.pending
          /\ running_tasks' = st.running
          /\ invoked' = st.invoked
    /\ ready_queue' = <<>>
    /\ pc' = "sleep"
    /\ UNCHANGED <<max_concurrent, dependency_graph, completed_tools, results,
                   completed_indices, supplied, awaited, runs, completed_lock, cur_result,
                   dependent_tools, supplied_len>>
    /\ UNCHANGED progressVars

LockNext ==
    \/ \E tools \in ToolVecs(MaxTools) : LockCall(tools)
    \/ \E i \in 1..Cardinality(Tool), r \in Resolution : TaskFinish(i, r)
    \/ LockLoopCheck
    \/ LockAwaitTask
    \/ LockAcquire
    \/ LockInsert
    \/ LockForDependent
    \/ LockCanExecute
    \/ LockLaunchDependent
    \/ LockReadyScan
    \/ LockLaunchReady
    \/ Sleep

LockSpec == Init /\ [][LockNext]_vars

\* ------------------------------------------------------------------------
\* Scheduler properties
\* ------------------------------------------------------------------------

\* The declared dependencies of a tool (DependencyGraph.dependencies).
DepsOf(tool) ==
    IF tool \in DOMAIN dependency_graph.dependencies
    THEN Range(dependency_graph.dependencies[tool])
    ELSE {}

\* execute_parallel has returned: Ok(results) at "done", Err(JoinError) at "err".
Returned == pc \in {"done", "err"}

ResultTools == {results[j].tool : j \in 1..Len(results)}

FailedTools == {results[j].tool : j \in {k \in 1..Len(results) : ~results[k].success}}

InvokedTools == {invoked[k].tool : k \in 1..Len(invoked)}

\* Every declared dependency of a supplied id is supplied too.
DepsSupplied == \A t \in supplied : DepsOf(t) \subseteq supplied

\* C1 (as claimed): when execute_parallel returns its result list, the list
\* holds exactly one outcome per supplied id: as many outcomes as ids, and the
\* ids of the outcomes are the supplied ids.
C1_Completeness ==
    pc = "done" =>
        /\ Len(results) = Cardinality(supplied)
        /\ ResultTools = supplied

\* C2: whenever the task function is invoked for a tool B, every declared
\* dependency A of B is already in completed_tools at that invocation.
C2_DependencyOrdering ==
    \A k \in 1..Len(invoked) :
        /\ DepsOf(invoked[k].tool) \subseteq invoked[k].seen
        /\ invoked[k].seen \subseteq completed_tools

\* C2 witness: a tool with declared dependencies has been launched and the
\* scheduler returned.
C2_Witness ==
    /\ pc = "done"
    /\ \E k \in 1..Len(invoked) : Cardinality(DepsOf(invoked[k].tool)) = 2

\* C3 (as claimed): a handle that resolved to an error is recorded as a
\* failure outcome of its tool and the tool is marked completed.
C3_ErrorRecorded ==
    \A k \in 1..Len(awaited) :
        awaited[k].status = "error" =>
            /\ awaited[k].tool \in FailedTools
            /\ awaited[k].tool \in completed_tools

\* C4 (as claimed): a panicked task does not end the scheduler loop; it is
\* converted into a failure outcome and the call does not return an error.
C4_PanicContained ==
    \A k \in 1..Len(awaited) :
        awaited[k].status = "panic" =>
            /\ pc # "err"
            /\ awaited[k].tool \in FailedTools

\* C5: a failure outcome neither halts the scheduler nor blocks dependents.
\* For every X whose outcome in the results has success = false: X is in
\* completed_tools; a supplied Y that depends on X is not left pending once
\* all its dependencies are completed, is launched only after X was completed,
\* and when the call returns Y has been launched and, if Y's handle resolved
\* to an outcome, the result list holds Y's outcome beside X's failed one.
C5_FailureDoesNotBlock ==
    \A X \in FailedTools :
        /\ X \in completed_tools
        /\ \A Y \in supplied :
              X \in DepsOf(Y) =>
                  /\ Y \in pending_tools => ~(DepsOf(Y) \subseteq completed_tools)
                  /\ \A k \in 1..Len(invoked) : invoked[k].tool = Y => X \in invoked[k].seen
                  /\ pc = "done" => Y \in InvokedTools
                  /\ (pc = "done" /\ \E k \in 1..Len(awaited) :
                                       /\ awaited[k].tool = Y
                                       /\ awaited[k].status \in {"success", "failure"})
                         => Y \in ResultTools

\* C5 witness: the call returned with a failed X and the outcome of a Y that
\* depends on X both in the result list.
C5_Witness ==
    /\ pc = "done"
    /\ \E X \in FailedTools : \E Y \in ResultTools : X \in DepsOf(Y)

\* C6 (as claimed, for an acyclic graph whose dependencies are all supplied):
\* once execute_parallel has returned, every supplied id is in completed_tools
\* and both pending_tools and running_tasks are empty.
C6_TerminationNothingDropped ==
    (Returned /\ DepsSupplied) =>
        /\ supplied \subseteq completed_tools
        /\ pending_tools = {}
        /\ running_tasks = <<>>

\* ------------------------------------------------------------------------
\* Progress properties
\* ------------------------------------------------------------------------

\* The nine transitions the validity table allows.
ValidTable ==
    { <<"Preparing", "Executing">>,
      <<"Executing", "ExecutingMid">>, <<"Executing", "Completed">>, <<"Executing", "Failed">>,
      <<"ExecutingMid", "ExecutingLate">>, <<"ExecutingMid", "Completed">>,
      <<"ExecutingMid", "Failed">>,
      <<"ExecutingLate", "Completed">>, <<"ExecutingLate", "Failed">> }

\* C7: is_valid_transition is true for exactly the nine pairs of the table and
\* false for the 27 other pairs, every self-transition and every transition
\* into Preparing among them.
C7_TransitionTable ==
    /\ Cardinality(ValidTable) = 9
    /\ \A from \in ProgressState, to \in ProgressState :
          /\ is_valid_transition(from, to) <=> (<<from, to>> \in ValidTable)
          /\ ~is_valid_transition(from, from)
          /\ ~is_valid_transition(from, "Preparing")
    /\ Cardinality({p \in ProgressState \X ProgressState :
                       ~is_valid_transition(p[1], p[2])}) = 27
    \* and so for the state every registered task is in
    /\ \A t \in Tool, to \in ProgressState :
          states["m1"][t] # NoState =>
              (is_valid_transition(states["m1"][t], to) <=> (<<states["m1"][t], to>> \in ValidTable))

\* C7 witness: update_state has accepted ExecutingLate -> Completed for one
\* tool and has rejected a self-transition of another.
C7_Witness ==
    /\ states["m1"]["Homebrew"] = "Completed"
    /\ progress_bars["m1"]["Homebrew"].position = 100
    /\ stderr = Warning("Preparing", "Preparing", "Rustup")

\* C8 (as claimed): update_state on a registered task in state `from` with
\* target `to` leaves the task in `to` and its indicator at the percentage and
\* message of `to` when the table allows the pair, and leaves the tracked
\* state and the indicator as they were when it does not.
C8_TransitionIffValid ==
    [][\A t \in Tool, to \in ProgressState :
          (UpdateState("m1", t, to) /\ states["m1"][t] # NoState) =>
              IF <<states["m1"][t], to>> \in ValidTable
              THEN /\ states'["m1"][t] = to
                   /\ progress_bars["m1"][t].present =>
                         /\ progress_bars'["m1"][t].position = progress_percentage(to)
                         /\ progress_bars'["m1"][t].message = display_message(to)
              ELSE /\ states'["m1"][t] = states["m1"][t]
                   /\ progress_bars'["m1"][t] = progress_bars["m1"][t]]_vars

\* C9 (as claimed): once the tracked state of a task has been Completed or
\* Failed, every later update_state call for it changes neither the tracked
\* state nor the indicator.
C9_TerminalIdempotence ==
    [][\A t \in Tool, to \in ProgressState :
          (UpdateState("m1", t, to) /\ t \in reached_terminal["m1"]) =>
              /\ states'["m1"][t] = states["m1"][t]
              /\ progress_bars'["m1"][t] = progress_bars["m1"][t]]_vars

\* C10: an update_state call on a registered task never lowers the fixed
\* percentage of its tracked state and never takes a task that has left
\* Preparing back to Preparing.
C10_MonotonicProgress ==
    [][\A t \in Tool, to \in ProgressState :
          (UpdateState("m1", t, to) /\ states["m1"][t] # NoState) =>
              /\ progress_percentage(states'["m1"][t]) >= progress_percentage(states["m1"][t])
              /\ states["m1"][t] # "Preparing" => states'["m1"][t] # "Preparing"]_vars

\* C10 witness: a task went Preparing -> Executing, and the request for
\* Preparing that followed was rejected: the task is still Executing.
C10_Witness ==
    /\ states["m1"]["Homebrew"] = "Executing"
    /\ stderr = Warning("Executing", "Preparing", "Homebrew")

\* C11 (as claimed): create_progress_bars leaves every id that was already
\* registered with the manager as it was: its tracked state and its indicator
\* are unchanged.
C11_RegisterIdempotent ==
    [][\A tools \in ToolSlices(MaxRegister) :
          CreateProgressBars("m1", tools) =>
              \A t \in registered["m1"] :
                  /\ states'["m1"][t] = states["m1"][t]
                  /\ progress_bars'["m1"][t] = progress_bars["m1"][t]]_vars

\* C12 (as claimed): when create_progress_bars(tools) returns on a manager,
\* every id of tools has a tracked state in that manager, and every entry the
\* call created is Preparing.
C12_RegisterCreatesEntries ==
    [][\A m \in Managers, tools \in ToolSlices(MaxRegister) :
          CreateProgressBars(m, tools) =>
              \A t \in Range(tools) :
                  /\ states'[m][t] # NoState
                  /\ states[m][t] = NoState => states'[m][t] = "Preparing"]_vars

\* C13: finalize_all gives every indicator of the manager a final message
\* chosen by the tracked state of its task: the completed message iff the
\* state is Completed, the failed message iff it is Failed, the interrupted
\* message iff it is Preparing, Executing, ExecutingMid or ExecutingLate; and
\* it marks every indicator finished.
C13_FinalizeMessages ==
    [][FinalizeAll("m1") =>
          \A t \in Tool :
              progress_bars["m1"][t].present =>
                  /\ progress_bars'["m1"][t].finished
                  /\ progress_bars'["m1"][t].message = "complete"
                         <=> states["m1"][t] = "Completed"
                  /\ progress_bars'["m1"][t].message = "failed"
                         <=> states["m1"][t] = "Failed"
                  /\ progress_bars'["m1"][t].message = "interrupted"
                         <=> states["m1"][t] \in {"Preparing", "Executing", "ExecutingMid",
                                                  "ExecutingLate"}]_vars

\* C13 witness: finalize_all has run on a manager with a Failed task and a task
\* still Preparing: both indicators are finished, one with the failed message
\* and one with the interrupted message.
C13_Witness ==
    /\ states["m1"]["Homebrew"] = "Failed"
    /\ progress_bars["m1"]["Homebrew"].finished
    /\ progress_bars["m1"]["Homebrew"].message = "failed"
    /\ states["m1"]["Rustup"] = "Preparing"
    /\ progress_bars["m1"]["Rustup"].finished
    /\ progress_bars["m1"]["Rustup"].message = "interrupted"

\* C14 (as claimed): while the output is not an interactive terminal,
\* create_progress_bars and update_state create and update no indicator, every
\* registered task keeps a tracked state, and the tracked state of a registered
\* task changes only along a pair of the validity table.
C14_NonInteractiveSuppressed ==
    [][(/\ ~term_interactive
        /\ \/ \E tools \in ToolSlices(MaxRegister) : CreateProgressBars("m1", tools)
           \/ \E tool \in ProgressTools, new_state \in ProgressState :
                 UpdateState("m1", tool, new_state))
       => /\ progress_bars' = progress_bars
          /\ \A t \in registered'["m1"] : states'["m1"][t] # NoState
          /\ \A t \in registered["m1"] :
                states'["m1"][t] # states["m1"][t]
                    => <<states["m1"][t], states'["m1"][t]>> \in ValidTable]_vars

\* No supplied id is a dependency of another supplied id.
Independent == \A a, b \in supplied : a \notin DepsOf(b)

\* The outcomes the tasks of this call resolved to, whatever the order in
\* which they finished.
AwaitedOutcomes ==
    {TaskResultOf(awaited[k]) :
        k \in {j \in 1..Len(awaited) : awaited[j].status \in {"success", "failure"}}}

\* C15: for supplied ids with no dependency relationship, the set of outcomes
\* execute_parallel returns is fixed by what each task resolved to: whatever
\* the order in which the tasks finished, every supplied id was awaited exactly
\* once, none of them panicked (a panic makes the call return the error in
\* every order) and the result list holds exactly the outcomes of the tasks
\* that resolved to a TaskResult, each once.
C15_Independence ==
    (pc = "done" /\ Independent) =>
        /\ {awaited[k].tool : k \in 1..Len(awaited)} = supplied
        /\ Len(awaited) = Cardinality(supplied)
        /\ \A k \in 1..Len(awaited) : awaited[k].status # "panic"
        /\ Range(results) = AwaitedOutcomes
        /\ Len(results) = Cardinality(AwaitedOutcomes)

\* C15 witness: two independent tasks were launched in one order and their
\* outcomes, one a failure, were collected in the other order.
C15_Witness ==
    /\ pc = "done"
    /\ Independent
    /\ Len(invoked) = 2
    /\ Len(results) = 2
    /\ results[1].tool = invoked[2].tool
    /\ results[2].tool = invoked[1].tool
    /\ results[1].success
    /\ ~results[2].success

\* The declared dependencies of a tool in a graph: none when the tool is absent
\* from the map.
DeclaredDeps(graph, tool) ==
    IF tool \in DOMAIN graph.dependencies THEN Range(graph.dependencies[tool]) ELSE {}

\* C16: get_ready_tools(pending) returns exactly the ids of pending whose
\* dependency list is empty or absent from the graph, each once and nothing
\* outside pending; with a graph that declares no dependencies it returns all
\* of pending.  Checked for every graph and every set of tools (once, before
\* the first call), and for the graph and the pending set of the scheduler
\* where the ready scan calls it.
C16_ReadyTools ==
    /\ runs = 0 => \A graph \in Graphs, available_tools \in SUBSET Tool :
          /\ get_ready_tools(graph, available_tools) # {}
          /\ \A v \in get_ready_tools(graph, available_tools) :
                /\ Range(v) = {t \in available_tools : DeclaredDeps(graph, t) = {}}
                /\ Len(v) = Cardinality(Range(v))
                /\ graph = DefaultGraph => Range(v) = available_tools
    /\ (pc = "process" /\ completed_indices = <<>>) =>
       \A v \in get_ready_tools(dependency_graph, pending_tools) :
          /\ Range(v) = {t \in pending_tools : DepsOf(t) = {}}
          /\ Range(v) \subseteq pending_tools
          /\ Len(v) = Cardinality(Range(v))

\* C16 witness: the ready scan ran on the three tools under a graph that gives
\* Homebrew an empty dependency list and the two others a dependency: only
\* Homebrew was launched.
C16_Witness ==
    /\ pc = "sleep"
    /\ "Homebrew" \in DOMAIN dependency_graph.dependencies
    /\ supplied = Tool
    /\ pending_tools = {"Rustup", "Mise"}
    /\ Len(running_tasks) = 1
    /\ running_tasks[1].tool = "Homebrew"

\* C17: can_execute(id, completed) is true iff every declared dependency of id
\* is in completed, and so is true for an id with an empty dependency list or
\* absent from the graph, whatever completed is.  Checked for every graph,
\* tool and completed set (once, before the first call), and for the graph and
\* the completed set of the scheduler.
C17_CanExecute ==
    /\ runs = 0 => \A graph \in Graphs, tool \in Tool, completed \in SUBSET Tool :
          /\ can_execute(graph, tool, completed) <=> (DeclaredDeps(graph, tool) \subseteq completed)
          /\ DeclaredDeps(graph, tool) = {} => can_execute(graph, tool, completed)
    /\ \A tool \in Tool :
          can_execute(dependency_graph, tool, completed_tools)
              <=> (DepsOf(tool) \subseteq completed_tools)

\* C17 witness: Mise depends on Homebrew and Rustup; Homebrew completed and
\* can_execute kept Mise pending while Rustup is still running.
C17_Witness ==
    /\ DepsOf("Mise") = {"Homebrew", "Rustup"}
    /\ completed_tools = {"Homebrew"}
    /\ "Mise" \in pending_tools
    /\ \E k \in 1..Len(awaited) : awaited[k].tool = "Homebrew"
    /\ \E i \in 1..Len(running_tasks) : running_tasks[i].tool = "Rustup"

\* The fixed percentages of the six states.
PercentTable ==
    [s \in ProgressState |->
        IF s = "Preparing" THEN 0
        ELSE IF s = "Executing" THEN 25
        ELSE IF s = "ExecutingMid" THEN 50
        ELSE IF s = "ExecutingLate" THEN 75
        ELSE 100]

\* C18: progress_percentage maps each state to its fixed percentage, which
\* depends on the state alone: Preparing 0, Executing 25, ExecutingMid 50,
\* ExecutingLate 75, Completed 100, Failed 100; so does it for the tracked
\* state of every task of the manager.
C18_FixedPercentages ==
    /\ \A s \in ProgressState : progress_percentage(s) = PercentTable[s]
    /\ \A t \in Tool :
          states["m1"][t] # NoState =>
              progress_percentage(states["m1"][t]) = PercentTable[states["m1"][t]]

\* C18 witness: one task was driven to Failed and another to ExecutingMid on an
\* interactive terminal; their indicators stand at 100 and 50.
C18_Witness ==
    /\ states["m1"]["Homebrew"] = "Failed"
    /\ progress_bars["m1"]["Homebrew"].position = 100
    /\ states["m1"]["Rustup"] = "ExecutingMid"
    /\ progress_bars["m1"]["Rustup"].position = 50

\* The ids of the handles in running_tasks.
RunningIds == {running_tasks[i].tool : i \in 1..Len(running_tasks)}

\* The ids whose outcome was inserted into completed during the current call.
CompletedThisRun ==
    {awaited[k].tool :
        k \in {j \in 1..Len(awaited) : awaited[j].status \in {"success", "failure"}}}

\* C19 (as claimed): at every point of an execute_parallel run, pending,
\* the running ids and completed are pairwise disjoint.
C19_Disjointness ==
    pc \in {"loop", "process", "sleep"} =>
        /\ pending_tools \cap RunningIds = {}
        /\ pending_tools \cap completed_tools = {}
        /\ RunningIds \cap completed_tools = {}

\* C20 (as claimed): completed is per run: it is empty when a call starts and
\* holds only ids completed by the current call, so a tool is launched only
\* when its dependencies were completed by the current call.
C20_PerRunState ==
    pc # "idle" =>
        /\ completed_tools \subseteq CompletedThisRun
        /\ \A k \in 1..Len(invoked) : DepsOf(invoked[k].tool) \subseteq CompletedThisRun

C24_NoLockAcrossAwait ==
    /\ completed_lock = "held" =>
          pc \in {"locked_insert", "locked_can_execute", "locked_ready"}
    /\ pc \in {"loop", "for_completed", "acquire_insert", "for_dependent",
               "acquire_can_execute", "call_update_fn", "acquire_ready", "for_ready",
               "sleep", "done", "err"}
          => completed_lock = "free"

\* C24 witness: the scheduler is about to call the task function for a
\* dependent after it took and released the lock twice (insert, can_execute).
C24_Witness ==
    /\ pc = "call_update_fn"
    /\ completed_lock = "free"
    /\ cur_result.tool \in completed_tools
    /\ Head(dependent_tools) \in pending_tools

\* C29: within one execute_parallel run the task function is invoked at most
\* once per task id: the invocations are for distinct ids, all of them
\* supplied, also when the input list names an id several times and whether a
\* launch comes from the dependents re-check or from the ready scan.
C29_InvokedAtMostOnce ==
    /\ \A j, k \in 1..Len(invoked) : j # k => invoked[j].tool # invoked[k].tool
    /\ InvokedTools \subseteq supplied
    /\ RunningIds \cap pending_tools = {}

\* C29 witness: the input list named an id more than once, a dependent was
\* launched by the re-check after a completion, and the call returned with
\* one invocation per supplied id.
C29_Witness ==
    /\ pc = "done"
    /\ supplied_len > Cardinality(supplied)
    /\ Len(invoked) = Cardinality(supplied)
    /\ \E k \in 1..Len(invoked) : DepsOf(invoked[k].tool) # {}

\* C25: whatever calls several managers of one process make, a tool id has an
\* indicator (a ProgressBar added to a MultiProgress) in at most one of them.
C25_OneIndicatorPerTool ==
    \A t \in ProgressTools :
        Cardinality({m \in Managers : progress_bars[m][t].present}) <= 1

\* C26: an indicator that has not been finished shows its task's tracked
\* state (the fixed percentage and the message of that state), whatever the
\* terminal answers at later calls.
C26_IndicatorShowsTrackedState ==
    \A t \in ProgressTools :
        (progress_bars["m1"][t].present /\ ~progress_bars["m1"][t].finished)
            => /\ states["m1"][t] # NoState
               /\ progress_bars["m1"][t].position = progress_percentage(states["m1"][t])
               /\ progress_bars["m1"][t].message = display_message(states["m1"][t])

\* C30: the tracked state of a task only ever changes to Preparing (a
\* registration) or along a pair of the transition table from the state it
\* had; a task with no tracked state is never put directly into a later state.
C30_TrackedFromPreparing ==
    [][\A t \in ProgressTools :
          states'["m1"][t] # states["m1"][t]
              => \/ states'["m1"][t] = "Preparing"
                 \/ /\ states["m1"][t] # NoState
                    /\ <<states["m1"][t], states'["m1"][t]>> \in ValidTable]_vars

\* C27: an accepted update_state of a task with an indicator into an executing
\* state restarts the animation's elapsed time from zero, and leaves the
\* elapsed time of the animation of every other task that is in an executing
\* state as it was.
C27_AnimationResetPerTask ==
    [][\A t \in ProgressTools, to \in ProgressState :
          ( /\ UpdateState("m1", t, to)
            /\ term_interactive
            /\ progress_bars["m1"][t].present
            /\ states["m1"][t] # to
            /\ states'["m1"][t] = to
            /\ IsExecuting(to) )
          => /\ clock' - animation_manager'["m1"].start_time = 0
             /\ \A u \in ProgressTools \ {t} :
                   (progress_bars["m1"][u].present /\ IsExecuting(states["m1"][u]))
                       => clock' - animation_manager'["m1"].start_time
                              = clock - animation_manager["m1"].start_time]_vars

\* C28: whatever time has elapsed, get_animation_progress returns at most 50
\* for Executing, at most 75 for ExecutingMid, at most 100 for ExecutingLate,
\* and the fixed percentage of the state for Preparing, Completed and Failed
\* or when the animation is not running.
C28_AnimatedCeiling ==
    animated # NoAnimated =>
        /\ animated.state = "Executing" => animated.value <= 50
        /\ animated.state = "ExecutingMid" => animated.value <= 75
        /\ animated.state = "ExecutingLate" => animated.value <= 100
        /\ (~animated.animating \/ ~IsExecuting(animated.state))
               => animated.value = progress_percentage(animated.state)

C28_Witness ==
    /\ animated.state = "Executing"
    /\ animated.animating
    /\ animated.elapsed > 10000
    /\ animated.value = 50

====
